---- MODULE Spec2Model ----
(***************************************************************************)
(* Model of the quantum-circuit demonstration scripts:                     *)
(*   quantum_utils.py        state factories and helpers                   *)
(*   quantum_experiments.py  sampling entry points and experiment circuits *)
(*   test_quantum.py         the validation tests                          *)
(*                                                                         *)
(* Every gate the scripts use (h, x, z, cx, cz, ch, ry, cry) has a real    *)
(* matrix, so amplitudes are real numbers.  They are kept exactly, as      *)
(* elements of the field Q(sqrt 2, sqrt 3, sqrt 5): IEEE rounding of the   *)
(* scripts' doubles is abstracted to exact real arithmetic.                *)
(***************************************************************************)
EXTENDS Integers, Sequences, FiniteSets, TLC

VARIABLES qc, made, fin, out, prev, sv, nq, depth

vars == <<qc, made, fin, out, prev, sv, nq, depth>>

---------------------------------------------------------------------------
(* Bounds of the model.                                                    *)

\* largest qubit count handed to create_w_state
WMaxN == 5
\* largest shot count handed to a sampling entry point
MaxShots == 2
\* longest gate sequence of the gate-by-gate evolution
MaxGates == 3
\* largest register of the gate-by-gate evolution
MaxQubits == 2
\* rotation angles of the gate-by-gate evolution: cos^2(theta/2) = 1/k
MaxAngleK == 2

---------------------------------------------------------------------------
(* Exact real numbers  (SUM_b c[b] * sqrt(Rad[b])) / d,  b a set of the    *)
(* primes 2, 3, 5 coded as a 3-bit mask, c[b] integers, d > 0, in lowest   *)
(* terms.                                                                  *)

Masks == 0..7

Bit(i, q) == (i \div (2 ^ q)) % 2

Rad == [b \in Masks |-> (IF Bit(b, 0) = 1 THEN 2 ELSE 1)
                      * (IF Bit(b, 1) = 1 THEN 3 ELSE 1)
                      * (IF Bit(b, 2) = 1 THEN 5 ELSE 1)]

XorT == [a \in Masks |-> [b \in Masks |->
            ((Bit(a, 0) + Bit(b, 0)) % 2)
          + ((Bit(a, 1) + Bit(b, 1)) % 2) * 2
          + ((Bit(a, 2) + Bit(b, 2)) % 2) * 4]]

\* sqrt(Rad[a]) * sqrt(Rad[b]) = CommonT[a][b] * sqrt(Rad[XorT[a][b]])
CommonT == [a \in Masks |-> [b \in Masks |->
            (IF Bit(a, 0) + Bit(b, 0) = 2 THEN 2 ELSE 1)
          * (IF Bit(a, 1) + Bit(b, 1) = 2 THEN 3 ELSE 1)
          * (IF Bit(a, 2) + Bit(b, 2) = 2 THEN 5 ELSE 1)]]

Abs(x) == IF x < 0 THEN -x ELSE x

RECURSIVE Gcd(_, _)
Gcd(a, b) == IF b = 0 THEN a ELSE Gcd(b, a % b)

Sum8(f) == f[0] + f[1] + f[2] + f[3] + f[4] + f[5] + f[6] + f[7]

Gcd8(f, d) ==
    Gcd(Gcd(Gcd(Gcd(Gcd(Gcd(Gcd(Gcd(d, Abs(f[0])), Abs(f[1])), Abs(f[2])),
        Abs(f[3])), Abs(f[4])), Abs(f[5])), Abs(f[6])), Abs(f[7]))

Reduce(c, d) ==
    IF d = 1 THEN [c |-> c, d |-> d]
    ELSE LET g == Gcd8(c, d)
         IN  IF g = 1 THEN [c |-> c, d |-> d]
             ELSE [c |-> [b \in Masks |-> c[b] \div g], d |-> d \div g]

Rat(p, q) == Reduce([b \in Masks |-> IF b = 0 THEN p ELSE 0], q)

Zero == Rat(0, 1)
One == Rat(1, 1)

NAdd(x, y) ==
    IF x = Zero THEN y
    ELSE IF y = Zero THEN x
    ELSE IF x.d = y.d
    THEN Reduce([b \in Masks |-> x.c[b] + y.c[b]], x.d)
    ELSE Reduce([b \in Masks |-> x.c[b] * y.d + y.c[b] * x.d], x.d * y.d)

NNeg(x) == [c |-> [b \in Masks |-> 0 - x.c[b]], d |-> x.d]

\* the masks where x has a nonzero coefficient
Terms(x) == {b \in Masks : x.c[b] # 0}

\* x * y for x with the single term x.c[i] * sqrt(Rad[i]) / x.d
MulTerm(x, i, y) ==
    Reduce([k \in Masks |-> x.c[i] * y.c[XorT[i][k]] * CommonT[i][XorT[i][k]]],
           x.d * y.d)

NMul(x, y) ==
    IF x = Zero \/ y = Zero THEN Zero
    ELSE IF x = One THEN y
    ELSE IF y = One THEN x
    ELSE LET tx == Terms(x)
             ty == Terms(y)
         IN  IF Cardinality(tx) = 1 THEN MulTerm(x, CHOOSE i \in tx : TRUE, y)
             ELSE IF Cardinality(ty) = 1 THEN MulTerm(y, CHOOSE i \in ty : TRUE, x)
             ELSE Reduce([k \in Masks |->
                            LET term[i \in Masks] ==
                                    IF i \in tx
                                    THEN x.c[i] * y.c[XorT[i][k]]
                                                * CommonT[i][XorT[i][k]]
                                    ELSE 0
                            IN  Sum8(term)],
                         x.d * y.d)

\* the largest s with s*s dividing n
SquarePart(n) ==
    CHOOSE s \in 1..n : n % (s * s) = 0 /\ \A t \in (s + 1)..n : n % (t * t) # 0

\* sqrt(p/q) = SquarePart(p*q) * sqrt(p*q / SquarePart(p*q)^2) / q
SqrtRat(p, q) ==
    IF p = 0 THEN Zero
    ELSE LET s == SquarePart(p * q)
             f == (p * q) \div (s * s)
             m == CHOOSE b \in Masks : Rad[b] = f
         IN  Reduce([b \in Masks |-> IF b = m THEN s ELSE 0], q)

CosHalf(k) == SqrtRat(1, k)
SinHalf(k) == SqrtRat(k - 1, k)

---------------------------------------------------------------------------
(* Gates.  A gate operation is a tagged record; ctl = -1 when the gate has *)
(* no control; k names the rotation angle 2*arccos(sqrt(1/k)) of ry/cry.   *)

GateOp(kind, ctl, tgt, k) == [kind |-> kind, ctl |-> ctl, tgt |-> tgt, k |-> k]

\* h with the sign of the last entry lost
MatH_unsigned == LET r == SqrtRat(1, 2) IN <<r, r, r, r>>

\* h without the factor 1/sqrt(2)
MatH_unscaled == <<One, One, One, NNeg(One)>>

\* 2x2 real matrices <<m00, m01, m10, m11>>
MatH == LET r == SqrtRat(1, 2) IN <<r, r, r, NNeg(r)>>

MatX == <<Zero, One, One, Zero>>

MatZ == <<One, Zero, Zero, NNeg(One)>>

MatRY(k) == <<CosHalf(k), NNeg(SinHalf(k)), SinHalf(k), CosHalf(k)>>

MatrixOf(g) ==
    CASE g.kind \in {"h", "ch"} -> MatH
      [] g.kind \in {"x", "cx"} -> MatX
      [] g.kind \in {"z", "cz"} -> MatZ
      [] g.kind \in {"ry", "cry"} -> MatRY(g.k)

Dim(n) == 2 ^ n

\* amplitude 1 at index 0, 0 elsewhere
InitState(n) == [i \in 0..(Dim(n) - 1) |-> IF i = 0 THEN One ELSE Zero]

NoState == [i \in {} |-> Zero]

\* The 2x2 matrix M on qubit g.tgt, in the index groups where the control
\* bit (if any) is 1; bit q of a basis index is qubit q.
ApplyGate(s, g) ==
    LET M == MatrixOf(g)
        w == 2 ^ g.tgt
    IN  [i \in DOMAIN s |->
            IF g.ctl >= 0 /\ Bit(i, g.ctl) = 0 THEN s[i]
            ELSE IF Bit(i, g.tgt) = 0
                 THEN NAdd(NMul(M[1], s[i]), NMul(M[2], s[i + w]))
                 ELSE NAdd(NMul(M[3], s[i - w]), NMul(M[4], s[i]))]

RECURSIVE Evolve(_, _)
Evolve(s, ops) ==
    IF ops = <<>> THEN s ELSE Evolve(ApplyGate(s, Head(ops)), Tail(ops))

\* p_i = |amplitude_i|^2
Prob(s, i) == NMul(s[i], s[i])

RECURSIVE NormFrom(_, _)
NormFrom(s, i) ==
    IF i \notin DOMAIN s THEN Zero ELSE NAdd(Prob(s, i), NormFrom(s, i + 1))

Norm(s) == NormFrom(s, 0)

---------------------------------------------------------------------------
(* Circuits: n qubits, m classical bits, and the instruction list; a       *)
(* measurement is the instruction "measure" of qubit tgt into classical    *)
(* bit k.                                                                  *)

QuantumCircuit(n, m) == [n |-> n, m |-> m, data |-> <<>>]

NoCircuit == QuantumCircuit(0, 0)

qc_append(c, g) == [c EXCEPT !.data = Append(@, g)]

qc_h(c, q) == qc_append(c, GateOp("h", -1, q, 0))
qc_x(c, q) == qc_append(c, GateOp("x", -1, q, 0))
qc_z(c, q) == qc_append(c, GateOp("z", -1, q, 0))
qc_cx(c, ctl, tgt) == qc_append(c, GateOp("cx", ctl, tgt, 0))
qc_cz(c, ctl, tgt) == qc_append(c, GateOp("cz", ctl, tgt, 0))
qc_ch(c, ctl, tgt) == qc_append(c, GateOp("ch", ctl, tgt, 0))
qc_ry(c, k, q) == qc_append(c, GateOp("ry", -1, q, k))
qc_cry(c, k, ctl, tgt) == qc_append(c, GateOp("cry", ctl, tgt, k))

\* qc.h([0, 1, ...]): h on every qubit below n, in order
RECURSIVE qc_h_range(_, _, _)
qc_h_range(c, q, n) == IF q >= n THEN c ELSE qc_h_range(qc_h(c, q), q + 1, n)

\* qc.measure(range(n), range(n)): qubit q into classical bit q, in order
RECURSIVE qc_measure_range(_, _, _)
qc_measure_range(c, q, n) ==
    IF q >= n THEN c
    ELSE qc_measure_range(qc_append(c, GateOp("measure", -1, q, q)), q + 1, n)

IsMeasure(g) == g.kind = "measure"

Gates(c) == SelectSeq(c.data, LAMBDA g : ~IsMeasure(g))

Measures(c) == SelectSeq(c.data, LAMBDA g : IsMeasure(g))

---------------------------------------------------------------------------
(* State factories (quantum_utils.py).  A factory returns a circuit or     *)
(* raises: [ok, qc, err].                                                  *)

Return(c) == [ok |-> TRUE, qc |-> c, err |-> ""]

Raise(e) == [ok |-> FALSE, qc |-> NoCircuit, err |-> e]

BellVariants == {"phi_plus", "phi_minus", "psi_plus", "psi_minus"}

\* names that are no variant
OtherNames == {"unknown", "PHI_PLUS", ""}

\* create_bell_state with the z(0) of the psi_minus branch left out
create_bell_state_no_z(variant) ==
    LET c0 == QuantumCircuit(2, 2)
    IN  CASE variant = "phi_plus" -> Return(qc_cx(qc_h(c0, 0), 0, 1))
          [] variant = "phi_minus" -> Return(qc_cx(qc_z(qc_h(c0, 0), 0), 0, 1))
          [] variant = "psi_plus" -> Return(qc_x(qc_cx(qc_h(c0, 0), 0, 1), 1))
          [] variant = "psi_minus" -> Return(qc_x(qc_cx(qc_h(c0, 0), 0, 1), 1))
          [] OTHER -> Raise("ValueError")

\* create_bell_state with the phi_plus and psi_plus branches exchanged
create_bell_state_swapped(variant) ==
    LET c0 == QuantumCircuit(2, 2)
    IN  CASE variant = "psi_plus" -> Return(qc_cx(qc_h(c0, 0), 0, 1))
          [] variant = "phi_minus" -> Return(qc_cx(qc_z(qc_h(c0, 0), 0), 0, 1))
          [] variant = "phi_plus" -> Return(qc_x(qc_cx(qc_h(c0, 0), 0, 1), 1))
          [] variant = "psi_minus" ->
                Return(qc_x(qc_cx(qc_z(qc_h(c0, 0), 0), 0, 1), 1))
          [] OTHER -> Raise("ValueError")

create_bell_state(variant) ==
    LET c0 == QuantumCircuit(2, 2)
    IN  CASE variant = "phi_plus" -> Return(qc_cx(qc_h(c0, 0), 0, 1))
          [] variant = "phi_minus" -> Return(qc_cx(qc_z(qc_h(c0, 0), 0), 0, 1))
          [] variant = "psi_plus" -> Return(qc_x(qc_cx(qc_h(c0, 0), 0, 1), 1))
          [] variant = "psi_minus" ->
                Return(qc_x(qc_cx(qc_z(qc_h(c0, 0), 0), 0, 1), 1))
          [] OTHER -> Raise("ValueError")

\* the n_qubits == 3 branch of create_w_state
w_explicit(c0) == qc_cx(qc_cx(qc_ch(qc_ch(qc_x(c0, 0), 0, 1), 0, 2), 1, 0), 2, 0)

\* for i in range(i, n): cry(2*arccos(sqrt(1/(n - i))), i - 1, i)
RECURSIVE w_loop(_, _, _)
w_loop(c, i, n) ==
    IF i >= n THEN c ELSE w_loop(qc_cry(c, n - i, i - 1, i), i + 1, n)

\* the general branch of create_w_state: ry(2*arccos(sqrt(1/n)), 0), then the loop
w_general(c0, n) == w_loop(qc_ry(c0, n, 0), 1, n)

\* create_w_state with the guard n_qubits < 1
create_w_state_off_by_one(n_qubits) ==
    IF n_qubits < 1 THEN Raise("ValueError")
    ELSE LET c0 == QuantumCircuit(n_qubits, 0)
         IN  IF n_qubits = 3 THEN Return(w_explicit(c0))
             ELSE Return(w_general(c0, n_qubits))

create_w_state(n_qubits) ==
    IF n_qubits < 2 THEN Raise("ValueError")
    ELSE LET c0 == QuantumCircuit(n_qubits, 0)
         IN  IF n_qubits = 3 THEN Return(w_explicit(c0))
             ELSE Return(w_general(c0, n_qubits))

\* qc.add_register(ClassicalRegister(size, 'c'))
add_register(c, size) == [c EXCEPT !.m = c.m + size]

\* measure_all: a register of n classical bits is added only to a circuit that
\* has none; qc.measure(range(n), range(n)) then refuses a classical bit index
\* the circuit does not have.  qc is the caller's circuit after the call.
measure_all(c) ==
    LET c1 == IF c.m = 0 THEN add_register(c, c.n) ELSE c
    IN  IF c1.m < c1.n THEN [ok |-> FALSE, qc |-> c1, err |-> "CircuitError"]
        ELSE [ok |-> TRUE, qc |-> qc_measure_range(c1, 0, c1.n), err |-> ""]

---------------------------------------------------------------------------
(* Circuits the experiments and tests build inline.                        *)

\* basic_hadamard_measurement, test_basic_measurement
basic_hadamard == qc_measure_range(qc_h(QuantumCircuit(1, 1), 0), 0, 1)

\* single_qubit_h_h_measurement, test_identity, interference_experiments qc1
h_h == qc_measure_range(qc_h(qc_h(QuantumCircuit(1, 1), 0), 0), 0, 1)

\* the GHZ gates without the last cx
ghz_gates_short(c0) == qc_cx(qc_h(c0, 0), 0, 1)

ghz_gates(c0) == qc_cx(qc_cx(qc_h(c0, 0), 0, 1), 0, 2)

\* ghz_experiments: the GHZ state measured in the computational basis
qc_ghz == qc_measure_range(ghz_gates(QuantumCircuit(3, 3)), 0, 3)

\* ghz_experiments: the GHZ circuit without classical bits or measurements
qc_ghz_sv == ghz_gates(QuantumCircuit(3, 0))

\* interference_experiments: h on both, cz(0, 1), h on both
qc2_cz ==
    qc_measure_range(
        qc_h_range(qc_cz(qc_h_range(QuantumCircuit(2, 2), 0, 2), 0, 1), 0, 2), 0, 2)

\* cnot_demonstration
cnot_demo ==
    qc_measure_range(qc_cx(qc_x(qc_cx(QuantumCircuit(2, 2), 0, 1), 0), 0, 1), 0, 2)

Experiments == {"basic_hadamard", "h_h", "qc_ghz", "qc_ghz_sv", "qc2_cz", "cnot_demo"}

ExperimentCircuit(name) ==
    CASE name = "basic_hadamard" -> basic_hadamard
      [] name = "h_h" -> h_h
      [] name = "qc_ghz" -> qc_ghz
      [] name = "qc_ghz_sv" -> qc_ghz_sv
      [] name = "qc2_cz" -> qc2_cz
      [] name = "cnot_demo" -> cnot_demo

---------------------------------------------------------------------------
(* Simulation and sampling.                                                *)

\* the state the circuit's gates produce from the all-zero state
Simulate(c) == Evolve(InitState(c.n), Gates(c))

\* Simulate(c); fin holds it for the gates of the current circuit qc, so that
\* it is computed once per circuit
FinalState(c) == IF c.n = qc.n /\ Gates(c) = Gates(qc) THEN fin ELSE Simulate(c)

\* Statevector.from_instruction: refuses a circuit that holds a measurement
Statevector_from_instruction(c) ==
    IF Measures(c) # <<>> THEN [ok |-> FALSE, sv |-> NoState, err |-> "QiskitError"]
    ELSE [ok |-> TRUE, sv |-> FinalState(c), err |-> ""]

\* classical bits some measurement writes
MeasuredBits(c) == {Measures(c)[j].k : j \in DOMAIN Measures(c)}

\* for each classical bit, the qubit whose measurement it holds at the end (the
\* last measurement into it), or -1 when no measurement writes it
ClbitSource(c) ==
    LET ms == Measures(c)
    IN  [b \in 0..(c.m - 1) |->
            IF \E j \in DOMAIN ms : ms[j].k = b
            THEN ms[CHOOSE j \in DOMAIN ms :
                        ms[j].k = b /\ \A l \in DOMAIN ms : ms[l].k = b => l <= j].tgt
            ELSE 0 - 1]

\* the bitstring basis index i leaves in a classical register of m bits:
\* classical bit 0 rightmost, a bit no measurement writes is 0
Bitstring(src, m, i) ==
    [j \in 1..m |-> IF src[m - j] < 0 THEN 0 ELSE Bit(i, src[m - j])]

Outcome(c, i) == Bitstring(ClbitSource(c), c.m, i)

\* basis indices of nonzero probability
Support(s) == {i \in DOMAIN s : Prob(s, i) # Zero}

\* the outcomes of nonzero probability
Outcomes(c) == {Outcome(c, i) : i \in Support(FinalState(c))}

\* get_counts: the drawn outcomes, each with the number of shots that gave it
CountsOf(draws) ==
    {<<draws[j], Cardinality({l \in DOMAIN draws : draws[l] = draws[j]})>> :
        j \in DOMAIN draws}

Result(op, shots, ret, counts, err) ==
    [op |-> op, shots |-> shots, ret |-> ret, counts |-> counts, err |-> err]

NoOut == Result("none", 0, "none", {}, "")

\* run_circuit_sampler drawing from every basis index, whatever its probability
run_circuit_sampler_uniform(c, shots) ==
    IF shots <= 0 THEN {Result("run_circuit_sampler", shots, "error", {}, "ValueError")}
    ELSE IF c.m = 0
    THEN {Result("run_circuit_sampler", shots, "error", {}, "AttributeError")}
    ELSE {Result("run_circuit_sampler", shots, "counts", CountsOf(draws), "") :
            draws \in [1..shots -> {Outcome(c, i) : i \in DOMAIN FinalState(c)}]}

\* run_circuit_sampler: every Counts the call can return, or the error it raises.
\* The sampler is built without a seed, so each shot is a free draw from the
\* outcomes of nonzero probability.  sampler.run rejects shots <= 0; a circuit
\* without classical register has no data field c.
run_circuit_sampler(c, shots) ==
    IF shots <= 0 THEN {Result("run_circuit_sampler", shots, "error", {}, "ValueError")}
    ELSE IF c.m = 0
    THEN {Result("run_circuit_sampler", shots, "error", {}, "AttributeError")}
    ELSE {Result("run_circuit_sampler", shots, "counts", CountsOf(draws), "") :
            draws \in [1..shots -> Outcomes(c)]}

\* remove_final_measurements(inplace=False): a copy without the measurements and
\* without the classical bits they wrote
remove_final_measurements(c) ==
    [n |-> c.n, m |-> c.m - Cardinality(MeasuredBits(c)), data |-> Gates(c)]

\* qc.remove_final_measurements() on the caller's circuit itself: self is the
\* caller's circuit after the call, ret the circuit handed on
qc_no_meas_inplace(c) ==
    [self |-> remove_final_measurements(c), ret |-> remove_final_measurements(c)]

\* qc_no_meas = qc.remove_final_measurements(inplace=False): the caller's circuit
\* is left as it is
qc_no_meas(c) == [self |-> c, ret |-> remove_final_measurements(c)]

\* the show_statevector part of run_and_print and run_show; qc is the caller's
\* circuit after it
ShowStatevector(op, shots, c, counts) ==
    LET nm == qc_no_meas(c)
        r == Statevector_from_instruction(nm.ret)
    IN  IF r.ok
        THEN [res |-> Result(op, shots, "sv", counts, ""), sv |-> r.sv, qc |-> nm.self]
        ELSE [res |-> Result(op, shots, "error", {}, r.err), sv |-> NoState,
              qc |-> nm.self]

\* what follows the sampling of run_and_print and run_show: an error of the
\* sampler propagates, otherwise the counts are printed and the statevector returned
AfterSampling(op, shots, c, show, r) ==
    IF r.ret = "error"
    THEN [res |-> Result(op, shots, "error", {}, r.err), sv |-> NoState, qc |-> c]
    ELSE IF show THEN ShowStatevector(op, shots, c, r.counts)
    ELSE [res |-> Result(op, shots, "none", r.counts, ""), sv |-> NoState, qc |-> c]

\* run_and_print: samples only if shots > 0
run_and_print(c, shots, show) ==
    IF shots > 0
    THEN {AfterSampling("run_and_print", shots, c, show, r) :
            r \in run_circuit_sampler(c, shots)}
    ELSE {AfterSampling("run_and_print", shots, c, show, NoOut)}

\* run_show with the shots > 0 guard of run_and_print
run_show_guarded(c, shots, show) ==
    IF shots > 0
    THEN {AfterSampling("run_show", shots, c, show, r) :
            r \in run_circuit_sampler(c, shots)}
    ELSE {AfterSampling("run_show", shots, c, show, NoOut)}

\* run_show: always samples
run_show(c, shots, show) ==
    {AfterSampling("run_show", shots, c, show, r) : r \in run_circuit_sampler(c, shots)}

---------------------------------------------------------------------------
(* The scripts as a state machine: a circuit is made by a factory or built *)
(* inline, optionally measured, and handed to the entry points.  made      *)
(* records the call that made qc; out is the outcome of the last call,     *)
(* prev the outcome of the run_circuit_sampler call before it; sv is the   *)
(* statevector the last call returned; fin is Simulate(qc).                *)

Made(fn, variant, n) == [fn |-> fn, variant |-> variant, n |-> n]

ShotArgs == (0 - 1)..MaxShots

Init ==
    /\ qc = NoCircuit
    /\ made = Made("none", "", 0)
    /\ fin = Simulate(NoCircuit)
    /\ out = NoOut
    /\ prev = NoOut
    /\ sv = NoState
    /\ nq = 0
    /\ depth = 0

\* the circuit or error r of a factory becomes the session's circuit
Construct(fn, r) ==
    /\ qc' = r.qc
    /\ fin' = Simulate(r.qc)
    /\ out' = IF r.ok THEN Result(fn, 0, "circuit", {}, "")
              ELSE Result(fn, 0, "error", {}, r.err)

CallCreateBellState ==
    /\ made.fn = "none"
    /\ \E variant \in BellVariants \cup OtherNames :
        /\ made' = Made("create_bell_state", variant, 0)
        /\ Construct("create_bell_state", create_bell_state(variant))
    /\ UNCHANGED <<prev, sv, nq, depth>>

CallCreateWState ==
    /\ made.fn = "none"
    /\ \E n \in (0 - 1)..WMaxN :
        /\ made' = Made("create_w_state", "", n)
        /\ Construct("create_w_state", create_w_state(n))
    /\ UNCHANGED <<prev, sv, nq, depth>>

BuildExperiment ==
    /\ made.fn = "none"
    /\ \E name \in Experiments :
        /\ made' = Made("experiment", name, 0)
        /\ Construct("experiment", Return(ExperimentCircuit(name)))
    /\ UNCHANGED <<prev, sv, nq, depth>>

\* a caller's own circuit: QuantumCircuit(n, m) with h(0)
BuildRegister ==
    /\ made.fn = "none"
    /\ \E n \in 1..MaxQubits :
        \E m \in 0..(n + 1) :
            /\ made' = Made("QuantumCircuit", "", n)
            /\ Construct("QuantumCircuit", Return(qc_h(QuantumCircuit(n, m), 0)))
    /\ UNCHANGED <<prev, sv, nq, depth>>

HasCircuit == made.fn # "none" /\ qc # NoCircuit

\* the last sampler outcome is kept when another call follows
Remember == IF out.op = "run_circuit_sampler" THEN out ELSE prev

\* qc.measure(range(n), range(n)) right after a factory call (test_bell_state);
\* a circuit with fewer classical bits than qubits is refused
CallMeasure ==
    /\ HasCircuit
    /\ out.ret = "circuit"
    /\ Measures(qc) = <<>>
    /\ IF qc.m < qc.n
       THEN /\ out' = Result("measure", 0, "error", {}, "CircuitError")
            /\ qc' = qc
       ELSE /\ out' = Result("measure", 0, "none", {}, "")
            /\ qc' = qc_measure_range(qc, 0, qc.n)
    /\ UNCHANGED <<made, fin, prev, sv, nq, depth>>

\* measure_all(qc) on a caller's own circuit, just built
CallMeasureAll ==
    /\ HasCircuit
    /\ made.fn = "QuantumCircuit"
    /\ out.ret = "circuit"
    /\ LET r == measure_all(qc)
       IN  /\ qc' = r.qc
           /\ out' = IF r.ok THEN Result("measure_all", 0, "measured", {}, "")
                     ELSE Result("measure_all", 0, "error", {}, r.err)
    /\ UNCHANGED <<made, fin, prev, sv, nq, depth>>

CallRunCircuitSampler ==
    /\ HasCircuit
    /\ \E shots \in ShotArgs :
        \E r \in run_circuit_sampler(qc, shots) :
            /\ out' = r
            /\ prev' = Remember
            /\ sv' = NoState
            /\ qc' = qc
    /\ UNCHANGED <<made, fin, nq, depth>>

CallRunAndPrint ==
    /\ HasCircuit
    /\ \E shots \in ShotArgs, show \in BOOLEAN :
        \E o \in run_and_print(qc, shots, show) :
            /\ out' = o.res
            /\ prev' = Remember
            /\ sv' = o.sv
            /\ qc' = o.qc
    /\ UNCHANGED <<made, fin, nq, depth>>

CallRunShow ==
    /\ HasCircuit
    /\ \E shots \in ShotArgs, show \in BOOLEAN :
        \E o \in run_show(qc, shots, show) :
            /\ out' = o.res
            /\ prev' = Remember
            /\ sv' = o.sv
            /\ qc' = o.qc
    /\ UNCHANGED <<made, fin, nq, depth>>

\* Statevector.from_instruction(qc) (test_statevector, examples.py)
CallStatevector ==
    /\ HasCircuit
    /\ LET r == Statevector_from_instruction(qc)
       IN  /\ out' = Result("Statevector", 0, IF r.ok THEN "sv" ELSE "error", {}, r.err)
           /\ sv' = r.sv
    /\ prev' = Remember
    /\ UNCHANGED <<qc, made, fin, nq, depth>>

Next ==
    \/ CallCreateBellState
    \/ CallCreateWState
    \/ BuildExperiment
    \/ BuildRegister
    \/ CallMeasure
    \/ CallMeasureAll
    \/ CallRunCircuitSampler
    \/ CallRunAndPrint
    \/ CallRunShow
    \/ CallStatevector

Spec == Init /\ [][Next]_vars

---------------------------------------------------------------------------
(* Gate-by-gate evolution of a register from the all-zero state: the state *)
(* after every prefix of every gate sequence of at most MaxGates gates.    *)

Qubits == 0..(nq - 1)
AnglesK == 2..MaxAngleK

InitGates ==
    /\ nq \in 1..MaxQubits
    /\ sv = InitState(nq)
    /\ depth = 0
    /\ qc = NoCircuit
    /\ made = Made("none", "", 0)
    /\ fin = NoState
    /\ out = NoOut
    /\ prev = NoOut

Frame == UNCHANGED <<qc, made, fin, out, prev, nq>>

Step(g) ==
    /\ sv' = ApplyGate(sv, g)
    /\ depth' = depth + 1

EvolveH ==
    /\ depth < MaxGates
    /\ \E q \in Qubits : Step(GateOp("h", -1, q, 0))
    /\ Frame

EvolveX ==
    /\ depth < MaxGates
    /\ \E q \in Qubits : Step(GateOp("x", -1, q, 0))
    /\ Frame

EvolveZ ==
    /\ depth < MaxGates
    /\ \E q \in Qubits : Step(GateOp("z", -1, q, 0))
    /\ Frame

EvolveCX ==
    /\ depth < MaxGates
    /\ \E c \in Qubits, t \in Qubits : c # t /\ Step(GateOp("cx", c, t, 0))
    /\ Frame

EvolveCZ ==
    /\ depth < MaxGates
    /\ \E c \in Qubits, t \in Qubits : c # t /\ Step(GateOp("cz", c, t, 0))
    /\ Frame

EvolveCH ==
    /\ depth < MaxGates
    /\ \E c \in Qubits, t \in Qubits : c # t /\ Step(GateOp("ch", c, t, 0))
    /\ Frame

EvolveRY ==
    /\ depth < MaxGates
    /\ \E q \in Qubits, k \in AnglesK : Step(GateOp("ry", -1, q, k))
    /\ Frame

EvolveCRY ==
    /\ depth < MaxGates
    /\ \E c \in Qubits, t \in Qubits, k \in AnglesK :
        c # t /\ Step(GateOp("cry", c, t, k))
    /\ Frame

NextGates ==
    \/ EvolveH
    \/ EvolveX
    \/ EvolveZ
    \/ EvolveCX
    \/ EvolveCZ
    \/ EvolveCH
    \/ EvolveRY
    \/ EvolveCRY

SpecGates == InitGates /\ [][NextGates]_vars

---------------------------------------------------------------------------
(* Properties.                                                             *)

\* fin is the simulation of the current circuit
FinIsSimulate == HasCircuit => fin = Simulate(qc)

HammingWeight(i) == Bit(i, 0) + Bit(i, 1) + Bit(i, 2) + Bit(i, 3) + Bit(i, 4) + Bit(i, 5)

KeysOf(counts) == {e[1] : e \in counts}

RECURSIVE SumCounts(_)
SumCounts(counts) ==
    IF counts = {} THEN 0
    ELSE LET e == CHOOSE x \in counts : TRUE
         IN  e[2] + SumCounts(counts \ {e})

\* a statevector was returned by the last call
HasStatevector == out.ret = "sv"

\* C1: for n in 2..5 the state of create_w_state(n) has squared magnitude 1/n
\* exactly on the n indices of Hamming weight 1 and amplitude 0 elsewhere
C1_WStateAmplitudes ==
    (made.fn = "create_w_state" /\ made.n \in 2..5 /\ HasStatevector) =>
        \A i \in DOMAIN sv :
            IF HammingWeight(i) = 1 THEN Prob(sv, i) = Rat(1, made.n)
            ELSE sv[i] = Zero

\* C2: for n = 3 the explicit sequence (the state create_w_state(3) gives) and the
\* general ry/cry sequence have the same squared magnitude at each of the 8 indices
C2_ExplicitEqualsGeneral ==
    (made.fn = "create_w_state" /\ made.n = 3 /\ HasStatevector) =>
        LET general == Simulate(w_general(QuantumCircuit(3, 0), 3))
        IN  \A i \in 0..7 : Prob(sv, i) = Prob(general, i)

\* C3: the phi_plus circuit is h(0), cx(0, 1); its state has squared magnitude
\* 1/2 at indices 0 and 3 and amplitude 0 at 1 and 2; every sampled outcome of
\* the circuit is 00 or 11
C3_BellPhiPlus ==
    made = Made("create_bell_state", "phi_plus", 0) =>
        /\ Gates(qc) = <<GateOp("h", -1, 0, 0), GateOp("cx", 0, 1, 0)>>
        /\ HasStatevector =>
            /\ DOMAIN sv = 0..3
            /\ Prob(sv, 0) = Rat(1, 2)
            /\ Prob(sv, 3) = Rat(1, 2)
            /\ sv[1] = Zero
            /\ sv[2] = Zero
        /\ KeysOf(out.counts) \subseteq {<<0, 0>>, <<1, 1>>}

\* C3 witness: the measured phi_plus circuit was sampled with both outcomes
\* drawn and its statevector returned
C3_Witness ==
    /\ made = Made("create_bell_state", "phi_plus", 0)
    /\ Measures(qc) # <<>>
    /\ out.op = "run_show"
    /\ HasStatevector
    /\ KeysOf(out.counts) = {<<0, 0>>, <<1, 1>>}

\* the script's h, h circuit gives [1, 0] and puts every shot on outcome "0"
HHSingleQubit ==
    /\ Simulate(h_h) = InitState(1)
    /\ \A shots \in 1..MaxShots :
        \A r \in run_circuit_sampler(h_h, shots) :
            r.ret = "counts" /\ r.counts = {<<<<0>>, shots>>}

\* C4: in every state the gates reach, h(q) applied twice gives the state back,
\* for every qubit q; the single-qubit h, h circuit ends in [1, 0] and every
\* shot sampled from it is "0"
C4_HHIsIdentity ==
    /\ \A q \in Qubits :
        ApplyGate(ApplyGate(sv, GateOp("h", -1, q, 0)), GateOp("h", -1, q, 0)) = sv
    /\ HHSingleQubit

\* C4 witness: a state MaxGates gates deep with every amplitude nonzero and not
\* all amplitudes equal
C4_Witness ==
    /\ depth = MaxGates
    /\ nq = MaxQubits
    /\ Support(sv) = DOMAIN sv
    /\ \E i \in DOMAIN sv : sv[i] # sv[0]

\* C5: the GHZ circuit is h(0), cx(0, 1), cx(0, 2); its state has squared
\* magnitude 1/2 at indices 0 and 7 and amplitude 0 at 1..6; every sampled
\* outcome of the measured circuit is 000 or 111
C5_Ghz ==
    (made.fn = "experiment" /\ made.variant \in {"qc_ghz", "qc_ghz_sv"}) =>
        /\ Gates(qc) = <<GateOp("h", -1, 0, 0), GateOp("cx", 0, 1, 0),
                         GateOp("cx", 0, 2, 0)>>
        /\ HasStatevector =>
            /\ DOMAIN sv = 0..7
            /\ Prob(sv, 0) = Rat(1, 2)
            /\ Prob(sv, 7) = Rat(1, 2)
            /\ \A i \in 1..6 : sv[i] = Zero
        /\ KeysOf(out.counts) \subseteq {<<0, 0, 0>>, <<1, 1, 1>>}

\* C5 witness: the measured GHZ circuit was sampled with both outcomes drawn and
\* its statevector returned
C5_Witness ==
    /\ made = Made("experiment", "qc_ghz", 0)
    /\ out.op = "run_and_print"
    /\ HasStatevector
    /\ KeysOf(out.counts) = {<<0, 0, 0>>, <<1, 1, 1>>}

\* C6: after every prefix of every gate sequence the squared magnitudes sum to 1
C6_NormIsOne == Norm(sv) = One

\* C6 witness: a state MaxGates gates deep that is spread over every index with
\* an irrational amplitude
C6_Witness ==
    /\ depth = MaxGates
    /\ nq = MaxQubits
    /\ Support(sv) = DOMAIN sv
    /\ \E i \in DOMAIN sv : sv[i].c[0] = 0

\* C7: Counts from sampling a circuit of m classical bits with shots > 0: every
\* key has length m, every count is positive, the counts sum to shots, and
\* every key is the outcome of an index of nonzero probability
C7_CountsWellFormed ==
    out.counts # {} =>
        LET possible == {Outcome(qc, i) : i \in Support(Simulate(qc))}
        IN  /\ out.shots > 0
            /\ \A e \in out.counts :
                /\ Len(e[1]) = qc.m
                /\ e[2] > 0
                /\ e[1] \in possible
            /\ \A e1, e2 \in out.counts : e1[1] = e2[1] => e1 = e2
            /\ SumCounts(out.counts) = out.shots

\* C7 witness: run_circuit_sampler returned Counts with two keys for 2 shots of
\* a 3-bit circuit
C7_Witness ==
    /\ out.op = "run_circuit_sampler"
    /\ out.ret = "counts"
    /\ out.shots = 2
    /\ qc.m = 3
    /\ Cardinality(out.counts) = 2

\* C8: two run_circuit_sampler runs on the same circuit with the same shot count
\* (the only inputs the call has; the seed is not one) return identical Counts
C8_SameInputsSameCounts ==
    (/\ prev.op = "run_circuit_sampler"
     /\ prev.ret = "counts"
     /\ out.op = "run_circuit_sampler"
     /\ out.ret = "counts"
     /\ prev.shots = out.shots) => out.counts = prev.counts

SamplingOps == {"run_circuit_sampler", "run_and_print", "run_show"}

\* C9 as stated: every entry point ends in an error, with no Counts, when
\* shots <= 0
C9_NonPositiveShotsIsError ==
    (out.op \in SamplingOps /\ out.shots <= 0) =>
        out.ret = "error" /\ out.counts = {}

\* C9 amended: with shots <= 0 run_circuit_sampler and run_show end in an error
\* and no Counts; run_and_print samples nothing, has no Counts and no error
C9_NonPositiveShots ==
    (out.op \in SamplingOps /\ out.shots <= 0) =>
        /\ out.counts = {}
        /\ out.ret # "counts"
        /\ out.op \in {"run_circuit_sampler", "run_show"} =>
            out.ret = "error" /\ out.err = "ValueError"
        /\ out.op = "run_and_print" => out.ret \in {"none", "sv"}

\* C9 witness: run_and_print(qc_ghz_sv, shots=0, show_statevector=True) returned
\* the statevector
C9_Witness ==
    /\ made = Made("experiment", "qc_ghz_sv", 0)
    /\ out.op = "run_and_print"
    /\ out.shots = 0
    /\ HasStatevector

\* C10: create_bell_state raises for every name but the four variants and
\* create_w_state raises for every n < 2, leaving no circuit; for every valid
\* parameter they return a circuit without error
C10_FactoriesValidate ==
    /\ made.fn = "create_bell_state" =>
        IF made.variant \in {"phi_plus", "phi_minus", "psi_plus", "psi_minus"}
        THEN /\ HasCircuit
             /\ qc.n = 2
             /\ out.op = "create_bell_state" => out.ret = "circuit"
        ELSE /\ ~HasCircuit
             /\ out = Result("create_bell_state", 0, "error", {}, "ValueError")
    /\ made.fn = "create_w_state" =>
        IF made.n >= 2
        THEN /\ HasCircuit
             /\ qc.n = made.n
             /\ out.op = "create_w_state" => out.ret = "circuit"
        ELSE /\ ~HasCircuit
             /\ out = Result("create_w_state", 0, "error", {}, "ValueError")

\* C10 witness: create_w_state(1) raised
C10_Witness ==
    /\ made = Made("create_w_state", "", 1)
    /\ out.ret = "error"
    /\ ~HasCircuit

\* C11: a call of run_circuit_sampler, run_and_print or run_show (the steps
\* that end with the outcome of one of them) leaves the circuit passed in (qubit and classical-bit counts, gates, measurements) as
\* it was, and a statevector returned for inspection is the state of the
\* circuit's gates alone, whatever was sampled before
C11_SamplingLeavesCircuit ==
    /\ [][out'.op \in SamplingOps => qc' = qc]_vars
    /\ [](HasStatevector => sv = Simulate(qc))

\* C11 witness: run_show returned the statevector of a measured circuit after
\* MaxShots shots, with a run_circuit_sampler call on the same circuit before it
C11_Witness ==
    /\ out.op = "run_show"
    /\ out.shots = MaxShots
    /\ HasStatevector
    /\ Measures(qc) # <<>>
    /\ prev.op = "run_circuit_sampler"
    /\ prev.ret = "counts"

\* the statevector of a Bell variant: squared magnitude 1/2 on indices 0 and 3
\* (phi) or 1 and 2 (psi) and amplitude 0 elsewhere, the two amplitudes equal
\* (plus) or negatives of each other (minus), and for psi_minus the amplitude
\* at index 1 equal to atIndex1
BellAmplitudes(atIndex1) ==
    LET phi == made.variant \in {"phi_plus", "phi_minus"}
        plus == made.variant \in {"phi_plus", "psi_plus"}
        a == IF phi THEN 0 ELSE 1
        b == IF phi THEN 3 ELSE 2
    IN  /\ DOMAIN sv = 0..3
        /\ Prob(sv, a) = Rat(1, 2)
        /\ Prob(sv, b) = Rat(1, 2)
        /\ \A i \in (0..3) \ {a, b} : sv[i] = Zero
        /\ plus => sv[a] = sv[b]
        /\ ~plus => sv[a] = NNeg(sv[b])
        /\ made.variant = "psi_minus" => sv[1] = atIndex1

\* a statevector of one of the four Bell variants was returned
BellStatevector ==
    made.fn = "create_bell_state" /\ made.variant \in BellVariants /\ HasStatevector

Appended(c, d) == SubSeq(d.data, Len(c.data) + 1, Len(d.data))

\* C13: every measure_all call completes without error and leaves the circuit
\* with its instructions so far unchanged, followed by a measurement of qubit i
\* into classical bit i for every i below n; a register of n classical bits is
\* added exactly when the circuit had none
C13_MeasureAllAlwaysMeasures ==
    [][out'.op = "measure_all" =>
        /\ out'.ret # "error"
        /\ qc'.n = qc.n
        /\ SubSeq(qc'.data, 1, Len(qc.data)) = qc.data
        /\ Gates(qc') = Gates(qc)
        /\ \A i \in 0..(qc.n - 1) :
            \E j \in DOMAIN Appended(qc, qc') :
                Appended(qc, qc')[j] = GateOp("measure", -1, i, i)
        /\ qc'.m = IF qc.m = 0 THEN qc.n ELSE qc.m]_vars

====
